---------------------------- MODULE Spec2Model ----------------------------
(***************************************************************************)
(* polyfjord3d: a batch photogrammetry driver.  main resolves its external *)
(* tools (check_dependency, with an interactive download as last resort),  *)
(* publishes freshly installed tools, then runs process_video for each     *)
(* video of the command line, one subprocess per pipeline step.            *)
(*                                                                         *)
(* The file system is a set of paths (a path is a sequence of components), *)
(* so existence checks, create_dir_all and remove_dir_all are computed as  *)
(* the standard library computes them.  Positions of main, of              *)
(* check_dependency / prompt_and_download_tool and of process_video are    *)
(* program counters; the program is sequential, so exactly one action is   *)
(* enabled per position and the nondeterminism is that of the environment: *)
(* exit statuses, network answers, typed lines, I/O errors.                *)
(*                                                                         *)
(* modify_polyfjord_path (modify_path.rs) is a program of its own: main    *)
(* launches it, the installer runs it too.  It is modelled on its own      *)
(* specification, SpecPath, over the registry value it edits.              *)
(***************************************************************************)
EXTENDS Naturals, Sequences, FiniteSets, TLC

VARIABLES
    args,     \* the parsed command line (struct Args); never changes
    fs,       \* the set of existing paths (files and directories)
    qt,       \* the process environment variable QT_PLUGIN_PATH
    pc,       \* position of main
    cd,       \* position inside check_dependency / prompt_and_download_tool
    cdl,      \* locals of the resolution in progress
    res,      \* main's locals: resolved paths, did_download, need_to_modify_path
    vi,       \* index of the video the batch loop is at
    pv,       \* position inside process_video
    status,   \* per video: what its process_video call came to
    log,      \* what this run did so far, in order
    exit,     \* the run's exit status once it has ended
    run,      \* which invocation this is, and what the process was started with
    prev,     \* what the previous invocation came to
    reg,      \* the registry value Environment\Path that modify_polyfjord_path edits
    mp        \* the modify_polyfjord_path process: its position and locals

vars == <<args, fs, qt, pc, cd, cdl, res, vi, pv, status, log, exit, run, prev, reg, mp>>

----------------------------------------------------------------------------
(* Bounds of the model. *)

\* longest list of videos on the command line
MaxVideos == 2
\* longest asset list a release carries
MaxAssets == 2
\* most lines the operator types at one download prompt
MaxReads == 2

----------------------------------------------------------------------------
(* Paths. *)

None == << >>

Join(p, c) == Append(p, c)

Parent(p) == SubSeq(p, 1, Len(p) - 1)

IsUnder(p, q) == Len(p) <= Len(q) /\ SubSeq(q, 1, Len(p)) = p

Ancestors(p) == { SubSeq(p, 1, k) : k \in 1..Len(p) }

Exists(f, p) == p \in f

CreateDirAll(f, p) == f \cup Ancestors(p)

RemoveDirAll(f, p) == { q \in f : ~IsUnder(p, q) }

\* format!("{}.exe", name)
ExeName(name) ==
    CASE name = "ffmpeg" -> "ffmpeg.exe"
      [] name = "colmap" -> "colmap.exe"
      [] name = "glomap" -> "glomap.exe"

\* the directory of the system PATH the model's tools may be found in
SysDir == <<"sys">>

\* dirs::data_local_dir().join("polyfjord3d")
ToolsBase == <<"localdata", "polyfjord3d">>

ToolNames == {"ffmpeg", "colmap", "glomap"}

COLMAP_REPO == "colmap/colmap"
GLOMAP_REPO == "colmap/glomap"
FFMPEG_REPO == "BtbN/FFmpeg-Builds"

\* find_executable: dir/name.exe, then dir/bin/name.exe, else nothing
find_executable(f, dir, name) ==
    IF Exists(f, Join(dir, ExeName(name))) THEN Join(dir, ExeName(name))
    ELSE IF Exists(f, Join(Join(dir, "bin"), ExeName(name)))
         THEN Join(Join(dir, "bin"), ExeName(name))
         ELSE None

\* which::which(name): the executable in a directory of PATH, if any
which(f, name) ==
    IF Exists(f, Join(SysDir, ExeName(name))) THEN Join(SysDir, ExeName(name))
    ELSE None

----------------------------------------------------------------------------
(* Release assets and the platform filter. *)

\* the characters of the names the model uses
Spell(s) ==
    CASE s = "win.zip"    -> <<"w", "i", "n", ".", "z", "i", "p">>
      [] s = "nv-win.zip" -> <<"n", "v", "-", "w", "i", "n", ".", "z", "i", "p">>
      [] s = "mac.zip"    -> <<"m", "a", "c", ".", "z", "i", "p">>
      [] s = "win.txz"    -> <<"w", "i", "n", ".", "t", "x", "z">>
      [] s = "win"        -> <<"w", "i", "n">>
      [] s = ".zip"       -> <<".", "z", "i", "p">>

\* str::contains
Contains(s, sub) ==
    \E i \in 1..(Len(s) + 1) :
        /\ i + Len(sub) - 1 <= Len(s)
        /\ SubSeq(s, i, i + Len(sub) - 1) = sub

\* str::ends_with
EndsWith(s, suf) ==
    /\ Len(suf) <= Len(s)
    /\ SubSeq(s, Len(s) - Len(suf) + 1, Len(s)) = suf

AssetNames == {"win.zip", "nv-win.zip", "mac.zip", "win.txz"}

Asset(n) == [name |-> n, browser_download_url |-> <<"dl", n>>]

Assets == { Asset(n) : n \in AssetNames }

\* the asset lists a release may carry
ReleaseLists == UNION { [1..k -> Assets] : k \in 0..MaxAssets }

\* (a filter that looked at the extension only)
Suitable_AnyZip(a) == EndsWith(Spell(a.name), Spell(".zip"))

\* |a| a.name.contains("win") && a.name.ends_with(".zip")
Suitable(a) ==
    /\ Contains(Spell(a.name), Spell("win"))
    /\ EndsWith(Spell(a.name), Spell(".zip"))

RECURSIVE FilterSeq(_)
FilterSeq(s) ==
    IF s = << >> THEN << >>
    ELSE IF Suitable(Head(s)) THEN <<Head(s)>> \o FilterSeq(Tail(s))
         ELSE FilterSeq(Tail(s))

\* release.assets.into_iter().filter(..).collect()
downloadable_assets(release) == FilterSeq(release)

\* the lines the operator may type, and input.trim().parse::<usize>()
Lines == {"x", "0", "1", "2", "3", "4"}

ParseUsize(line) ==
    CASE line = "0" -> [ok |-> TRUE, n |-> 0]
      [] line = "1" -> [ok |-> TRUE, n |-> 1]
      [] line = "2" -> [ok |-> TRUE, n |-> 2]
      [] line = "3" -> [ok |-> TRUE, n |-> 3]
      [] line = "4" -> [ok |-> TRUE, n |-> 4]
      [] OTHER      -> [ok |-> FALSE, n |-> 0]

\* Ok(n) if n > 0 && n <= downloadable_assets.len()
ValidChoice(line, assets) ==
    /\ ParseUsize(line).ok
    /\ ParseUsize(line).n > 0
    /\ ParseUsize(line).n <= Len(assets)

\* what the archive of a tool may hold, entry by entry
ArchiveLayouts(name) ==
    { << <<ExeName(name)>>, <<"plugins">> >>,
      << <<"lib">>, <<"bin", ExeName(name)>> >>,
      << <<"pkg", "bin", ExeName(name)>> >> }

\* unzip_file's loop over the first k entries: each is created under dest with its parents
RECURSIVE Extracted(_, _, _, _)
Extracted(f, dest, entries, k) ==
    IF k = 0 THEN f
    ELSE CreateDirAll(Extracted(f, dest, entries, k - 1), dest \o entries[k])


----------------------------------------------------------------------------
(* The command line and the state a run starts in. *)

\* the video paths of the model: two of them share a file stem
VideoPaths ==
    { [dir |-> "d1", stem |-> "a", ext |-> "mp4"],
      [dir |-> "d2", stem |-> "a", ext |-> "mov"],
      [dir |-> "d1", stem |-> "b", ext |-> "mp4"] }

Stems == { v.stem : v \in VideoPaths }

VideoLists == UNION { [1..k -> VideoPaths] : k \in 1..MaxVideos }

\* (a name that kept the extension of one kind of file)
file_stem_KeepsMov(v) == IF v.ext = "mov" THEN "a.mov" ELSE v.stem

\* video_path.file_stem()
file_stem(v) == v.stem

\* --scenes-dir (its default)
ScenesDir == <<"scenes">>

\* scenes_dir.join(video_name), and the paths process_video derives from it
SceneDir(v) == Join(ScenesDir, file_stem(v))
ImagesDir(v) == Join(SceneDir(v), "images")
SparseDir(v) == Join(SceneDir(v), "sparse")
DbPath(v) == Join(SceneDir(v), "database.db")
ModelPath(v) == Join(SparseDir(v), "0")

\* what an earlier job left under scenes/<stem>
OldScene(stem) ==
    LET d == Join(ScenesDir, stem) IN
    { ScenesDir, d, Join(d, "images"), Join(Join(d, "images"), "frame_old.jpg"),
      Join(d, "sparse"), Join(d, "notes.txt") }

\* where a tool is when the run starts
ToolStates == {"absent", "path", "root", "bin", "both"}

ToolFiles(n, s) ==
    LET onpath == Ancestors(Join(SysDir, ExeName(n)))
        root   == Ancestors(Join(Join(ToolsBase, n), ExeName(n)))
        bin    == Ancestors(Join(Join(Join(ToolsBase, n), "bin"), ExeName(n)))
    IN CASE s = "absent" -> {}
         [] s = "path"   -> onpath
         [] s = "root"   -> root
         [] s = "bin"    -> bin
         [] s = "both"   -> onpath \cup root

\* --ffmpeg-path / --tool-path: not given, an existing file, a missing file
OverridePaths(n) == { None, <<"opt", ExeName(n)>>, <<"gone", ExeName(n)>> }

OverrideFiles(p) == IF Len(p) > 0 /\ p[1] = "opt" THEN Ancestors(p) ELSE {}

ToolName(tool) == IF tool = "Colmap" THEN "colmap" ELSE "glomap"

\* the tools the run resolves by searching, and those it is given a path for
Searched(a) ==
    (IF a.ffmpeg_path = None THEN {"ffmpeg"} ELSE {})
    \cup (IF a.tool_path = None THEN {ToolName(a.tool)} ELSE {})
    \cup (IF a.tool = "Glomap" THEN {"colmap"} ELSE {})

Overridden(a) ==
    ((IF a.ffmpeg_path # None THEN {"ffmpeg"} ELSE {})
     \cup (IF a.tool_path # None THEN {ToolName(a.tool)} ELSE {})) \ Searched(a)

\* a QT_PLUGIN_PATH value is a list of tokens; the shell may hand one down
QtValues == { None, << <<"qt5", "plugins">> >> }

Cdl0 ==
    [release |-> << >>, assets |-> << >>, reads |-> 0, line |-> "", choice |-> 0,
     asset |-> [name |-> "", browser_download_url |-> None],
     zip |-> None, dir |-> None]

DepPcs == {"dep_ffmpeg", "dep_tool", "dep_colmap"}

NoRet == [st |-> "none", path |-> None, fresh |-> FALSE]

Res0 ==
    [ffmpeg_path |-> None, tool_path |-> None, colmap_path |-> None,
     did_download |-> FALSE, need_to_modify_path |-> FALSE,
     ret |-> [d \in DepPcs |-> NoRet]]

Prev0 == [pc |-> "none", status |-> << >>, spawned |-> 0, failed_install |-> ""]

\* everything a fresh process starts with, for the command line a and file system f
Start(a, f, shellqt, n, p) ==
    /\ args = a
    /\ fs = f
    /\ qt = shellqt
    /\ pc = "dep_ffmpeg"
    /\ cd = "override"
    /\ cdl = Cdl0
    /\ res = Res0
    /\ vi = 1
    /\ pv = "enter"
    /\ status = [i \in 1..Len(a.videos) |-> "pending"]
    /\ log = << >>
    /\ exit = "running"
    /\ run = [n |-> n, shell_qt |-> shellqt, fs0 |-> f]
    /\ prev = p

\* the tools are resolvable without a download; the batch and the scenes vary
InitBatch ==
    \E vs \in VideoLists, tool \in {"Colmap", "Glomap"}, force \in BOOLEAN,
       old \in SUBSET Stems :
        LET a == [videos |-> vs, tool |-> tool, force |-> force,
                  ffmpeg_path |-> <<"opt", ExeName("ffmpeg")>>, tool_path |-> None]
            f == OverrideFiles(a.ffmpeg_path)
                 \cup ToolFiles(ToolName(tool), "path")
                 \cup (IF tool = "Glomap" THEN ToolFiles("colmap", "root") ELSE {})
                 \cup UNION { OldScene(s) : s \in old }
        IN Start(a, f, None, 1, Prev0)

\* one video, and the scene of another from an earlier job; the overrides, the
\* tools' locations and the environment vary
InitDeps ==
    \E tool \in {"Colmap", "Glomap"},
       fp \in OverridePaths("ffmpeg"),
       st \in [ToolNames -> ToolStates],
       shellqt \in QtValues :
      \E tp \in OverridePaths(ToolName(tool)) :
        LET v == CHOOSE x \in VideoPaths : x.stem = "b"
            a == [videos |-> <<v>>, tool |-> tool, force |-> FALSE,
                  ffmpeg_path |-> fp, tool_path |-> tp]
            f == OverrideFiles(fp) \cup OverrideFiles(tp)
                 \cup UNION { ToolFiles(n, st[n]) : n \in ToolNames }
                 \cup OldScene("a")
        IN /\ \A n \in Overridden(a) : st[n] \in {"absent", "both"}
           /\ \A n \in ToolNames \ (Searched(a) \cup Overridden(a)) : st[n] = "absent"
           /\ Start(a, f, shellqt, 1, Prev0)

\* the persisted Path is a list of entries, the text between two ';'; an entry
\* is a directory, spelled with or without a trailing separator, or is empty
PathEntry(d, sep) == [dir |-> d, sep |-> sep]

Reg0 == [has_path |-> TRUE, path |-> <<PathEntry(<<"win">>, FALSE)>>]

Mp0 ==
    [pc |-> "idle", n |-> 0, install_dir |-> None, current_path |-> << >>,
     new_paths |-> << >>, added_any |-> FALSE, i |-> 1, exit |-> 0,
     exit1 |-> 0, reg0 |-> Reg0, reg1 |-> Reg0]

Init == (InitBatch \/ InitDeps) /\ reg = Reg0 /\ mp = Mp0

----------------------------------------------------------------------------
(* What the run records of itself. *)

Ev(e, t, v, p, fl) ==
    [ev |-> e, tool |-> t, vid |-> v, path |-> p, flags |-> fl, ok |-> TRUE,
     argv |-> << >>]

\* run_command(cmd, video_name, step_name): the program cmd names, the flags and
\* the paths it is handed, and whether run_command returned Ok
Launch(step, v, exe, fl, paths, out) ==
    [ev |-> "spawn", tool |-> step, vid |-> v, path |-> exe, flags |-> fl,
     ok |-> (out = "ok"), argv |-> paths]

Events(kind) == { i \in 1..Len(log) : log[i].ev = kind }

Spawns == Events("spawn")

----------------------------------------------------------------------------
(* check_dependency and prompt_and_download_tool. *)

\* the arguments of the check_dependency call main is at (lines 432, 450, 458)
Dep ==
    CASE pc = "dep_ffmpeg" ->
           [name |-> "ffmpeg", repo |-> FFMPEG_REPO, arg |-> args.ffmpeg_path,
            install_dir_name |-> "ffmpeg"]
      [] pc = "dep_tool" ->
           [name |-> ToolName(args.tool),
            repo |-> IF args.tool = "Colmap" THEN COLMAP_REPO ELSE GLOMAP_REPO,
            arg |-> args.tool_path, install_dir_name |-> ToolName(args.tool)]
      [] OTHER ->
           [name |-> "colmap", repo |-> COLMAP_REPO, arg |-> None,
            install_dir_name |-> "colmap"]

\* (a main that resolved colmap once more whatever the tool)
NeedsCompanion_Always(tool) == TRUE

\* if let Tool::Glomap = args.tool: colmap is resolved as well
NeedsCompanion(tool) == tool = "Glomap"

\* main is inside a check_dependency call
InDep ==
    \/ pc \in {"dep_ffmpeg", "dep_tool"}
    \/ pc = "dep_colmap" /\ NeedsCompanion(args.tool)

\* (a flag that kept the last resolution's answer only)
NeedAfter_LastOnly(need, did) == did

\* if did_download { need_to_modify_path = true; }
NeedAfter(need, did) == need \/ did

\* main takes check_dependency's Ok((path, fresh)): lines 432-435, 450-453, 456-465
MainTakes(path, fresh) ==
    LET r == [res EXCEPT !.ret[pc] = [st |-> "ok", path |-> path, fresh |-> fresh],
                         !.did_download = fresh,
                         !.need_to_modify_path = NeedAfter(res.need_to_modify_path, fresh)]
    IN CASE pc = "dep_ffmpeg" -> [r EXCEPT !.ffmpeg_path = path]
         [] pc = "dep_tool"   -> [r EXCEPT !.tool_path = path]
         [] OTHER             -> [r EXCEPT !.colmap_path = path]

AfterDep ==
    CASE pc = "dep_ffmpeg" -> "dep_tool"
      [] pc = "dep_tool"   -> "dep_colmap"
      [] OTHER             -> "publish"

\* (a main that logged the error and went on to its next stage)
OnDepError_GoOn == AfterDep

\* where main goes when check_dependency returns Err: the ? of lines 432, 450, 458
OnDepError == "aborted"

\* check_dependency goes on to its next stage
CdStep(newcd, newcdl, newfs, evs) ==
    /\ cd' = newcd
    /\ cdl' = newcdl
    /\ fs' = newfs
    /\ log' = log \o evs
    /\ UNCHANGED <<args, qt, pc, res, vi, pv, status, exit, run, prev, reg, mp>>

\* check_dependency returns Ok((path, fresh))
CdOk(path, fresh, newfs, evs) ==
    /\ cd' = "override"
    /\ cdl' = Cdl0
    /\ fs' = newfs
    /\ log' = log \o evs
              \o <<Ev("return_ok", Dep.name, 0, path, IF fresh THEN {"fresh"} ELSE {})>>
    /\ res' = MainTakes(path, fresh)
    /\ pc' = AfterDep
    /\ UNCHANGED <<args, qt, vi, pv, status, exit, run, prev, reg, mp>>

\* check_dependency returns Err
CdErr(newfs, evs) ==
    /\ cd' = "override"
    /\ cdl' = Cdl0
    /\ fs' = newfs
    /\ log' = log \o evs \o <<Ev("return_err", Dep.name, 0, None, {})>>
    /\ res' = [res EXCEPT !.ret[pc] = [st |-> "err", path |-> None, fresh |-> FALSE]]
    /\ pc' = OnDepError
    /\ exit' = IF OnDepError = "aborted" THEN "failure" ELSE exit
    /\ UNCHANGED <<args, qt, vi, pv, status, run, prev, reg, mp>>

\* (a missing override that fell through to the search)
OverrideOutcome_FallThrough(arg, f) ==
    IF arg # None /\ Exists(f, arg) THEN "use" ELSE "search"

\* if let Some(path) = arg_path { if path.exists() {Ok} else {Err} }
OverrideOutcome(arg, f) ==
    IF arg = None THEN "search"
    ELSE IF Exists(f, arg) THEN "use" ELSE "error"

CD_Override ==
    /\ InDep /\ cd = "override"
    /\ LET o == OverrideOutcome(Dep.arg, fs) IN
       CASE o = "use"   -> CdOk(Dep.arg, FALSE, fs, << >>)
         [] o = "error" -> CdErr(fs, << >>)
         [] OTHER       -> CdStep("which", cdl, fs, << >>)

\* (a resolution that went from PATH straight to the download)
AfterWhichMiss_Download == "release"

\* the stage that follows a PATH search that found nothing
AfterWhichMiss == "install_dir"

CD_Which ==
    /\ InDep /\ cd = "which"
    /\ LET p == which(fs, Dep.name)
           e == <<Ev("which", Dep.name, 0, None, {})>> IN
       IF p # None THEN CdOk(p, FALSE, fs, e)
       ELSE CdStep(AfterWhichMiss, cdl, fs, e)

\* get_install_dir()?.join(install_dir_name), created when missing
CD_InstallDir ==
    /\ InDep /\ cd = "install_dir"
    /\ LET dir == Join(ToolsBase, Dep.install_dir_name)
           e == <<Ev("install_dir", Dep.name, 0, dir, {})>> IN
       \E io \in {"ok", "error"} :
          /\ io = "error" => ~Exists(fs, dir)
          /\ IF io = "ok"
             THEN CdStep("find", [cdl EXCEPT !.dir = dir], CreateDirAll(fs, dir), e)
             ELSE CdErr(fs, e)

CD_Find ==
    /\ InDep /\ cd = "find"
    /\ LET p == find_executable(fs, cdl.dir, Dep.name)
           e == <<Ev("find", Dep.name, 0, cdl.dir, {})>> IN
       IF p # None THEN CdOk(p, FALSE, fs, e)
       ELSE CdStep("release", cdl, fs, e)

\* get_latest_release(repo)?
PD_Release ==
    /\ InDep /\ cd = "release"
    /\ LET e == <<Ev("release", Dep.name, 0, None, {})>> IN
       \/ CdErr(fs, e)
       \/ \E r \in ReleaseLists : CdStep("filter", [cdl EXCEPT !.release = r], fs, e)

\* the filter (into_iter consumes the release's list), the empty check and the
\* printed list
PD_Filter ==
    /\ InDep /\ cd = "filter"
    /\ LET d == downloadable_assets(cdl.release) IN
       IF d = << >> THEN CdErr(fs, << >>)
       ELSE CdStep("prompt", [cdl EXCEPT !.assets = d, !.release = << >>], fs,
                   <<Ev("offer", Dep.name, 0, None, {})>>)

\* one turn of the choice loop: a line is read and parsed; flush()? and
\* read_line()? may fail
PD_Prompt ==
    /\ InDep /\ cd = "prompt"
    /\ \/ CdErr(fs, << >>)
       \/ \E line \in Lines :
            LET e == << >> IN
            IF ValidChoice(line, cdl.assets)
            THEN CdStep("download",
                        [cdl EXCEPT !.reads = @ + 1, !.line = line,
                                    !.choice = ParseUsize(line).n], fs, e)
            ELSE /\ cdl.reads + 1 < MaxReads
                 /\ CdStep("prompt", [cdl EXCEPT !.reads = @ + 1, !.line = line], fs, e)

\* (a removal that took the head of the list whatever the index)
RemoveAt_First(s, i) == s[1]

\* Vec::remove(index): the element it returns
RemoveAt(s, i) == s[i]

\* downloadable_assets.remove(choice) (the list is not used again), then
\* download_file(url, dest_dir.join(name))?
PD_Download ==
    /\ InDep /\ cd = "download"
    /\ LET a == RemoveAt(cdl.assets, cdl.choice)
           zip == Join(cdl.dir, a.name)
           l == [cdl EXCEPT !.asset = a, !.zip = zip, !.choice = 0, !.line = "",
                            !.assets = << >>]
           e == <<Ev("download", Dep.name, 0, a.browser_download_url, {})>> IN
       \/ CdStep("unzip", l, fs \cup {zip}, e)
       \/ \E partial \in BOOLEAN :
            CdErr(IF partial THEN fs \cup {zip} ELSE fs, e)

\* unzip_file(zip_path, dest_dir)?: an error may come after some entries were written
PD_Unzip ==
    /\ InDep /\ cd = "unzip"
    /\ LET e == <<Ev("unzip", Dep.name, 0, cdl.zip, {})>> IN
       \E lay \in ArchiveLayouts(Dep.name) : \E k \in 0..Len(lay) :
          IF k = Len(lay)
          THEN CdStep("cleanup", cdl, Extracted(fs, cdl.dir, lay, k), e)
          ELSE CdErr(Extracted(fs, cdl.dir, lay, k), e)

\* fs::remove_file(zip_path)?
PD_Cleanup ==
    /\ InDep /\ cd = "cleanup"
    /\ LET e == <<Ev("remove_zip", Dep.name, 0, cdl.zip, {})>> IN
       \/ CdStep("verify", cdl, fs \ {cdl.zip}, e)
       \/ CdErr(fs, e)

\* (a download that reported itself as not fresh)
FreshOnDownload_No == FALSE

\* find_executable(dest_dir, tool_name).ok_or_else(..), mapped to (path, true)
FreshOnDownload == TRUE

PD_Verify ==
    /\ InDep /\ cd = "verify"
    /\ LET p == find_executable(fs, cdl.dir, Dep.name)
           e == <<Ev("verify", Dep.name, 0, cdl.dir, {})>> IN
       IF p # None THEN CdOk(p, FreshOnDownload, fs, e)
       ELSE CdErr(fs, e)

----------------------------------------------------------------------------
(* main between the resolutions and the batch loop. *)

MainStep(newpc, newres, newfs, newqt, evs) ==
    /\ pc' = newpc
    /\ res' = newres
    /\ fs' = newfs
    /\ qt' = newqt
    /\ log' = log \o evs
    /\ exit' = IF newpc = "aborted" THEN "failure" ELSE exit
    /\ UNCHANGED <<args, cd, cdl, vi, pv, status, run, prev, reg, mp>>

\* run_command: Err when the subprocess cannot be launched or exits non-zero
Outcomes == {"ok", "exit_nonzero", "spawn_error"}

\* } else { (tool_path.clone(), did_download) }; if did_download {..}
Main_ColmapAlias ==
    /\ pc = "dep_colmap" /\ ~NeedsCompanion(args.tool)
    /\ MainStep("publish",
                [res EXCEPT !.colmap_path = res.tool_path,
                            !.need_to_modify_path =
                                NeedAfter(res.need_to_modify_path, res.did_download)],
                fs, qt, << >>)

\* if need_to_modify_path { run_command(modify_polyfjord_path <dir of colmap>)? }
Main_Publish ==
    /\ pc = "publish"
    /\ IF res.need_to_modify_path
       THEN \E out \in Outcomes :
              MainStep(IF out = "ok" THEN "qt_plugin_path" ELSE "aborted", res, fs, qt,
                       <<Launch("modify_path", 0, <<"modify_polyfjord_path">>, {},
                                <<Parent(res.colmap_path)>>, out)>>)
       ELSE MainStep("qt_plugin_path", res, fs, qt, << >>)

PluginsPath == Join(Join(ToolsBase, "colmap"), "plugins")

\* (a value that dropped what the variable held before)
QtPluginPath_Replaced(existing) == <<PluginsPath>>

\* plugins, then ";" and the existing value when there is one
QtPluginPath(existing) ==
    IF existing = None THEN <<PluginsPath>>
    ELSE <<PluginsPath, <<";">>>> \o existing

\* get_install_dir()? and env::set_var("QT_PLUGIN_PATH", ..)
Main_QtPluginPath ==
    /\ pc = "qt_plugin_path"
    /\ \E io \in {"ok", "error"} :
          /\ io = "error" => ~Exists(fs, ToolsBase)
          /\ IF io = "ok"
             THEN MainStep("scenes_dir", res, CreateDirAll(fs, ToolsBase),
                           QtPluginPath(qt), <<Ev("set_var", "", 0, None, {})>>)
             ELSE MainStep("aborted", res, fs, qt, << >>)

\* if !args.scenes_dir.exists() { fs::create_dir_all(&args.scenes_dir)?; }
Main_ScenesDir ==
    /\ pc = "scenes_dir"
    /\ \E io \in {"ok", "error"} :
          /\ io = "error" => ~Exists(fs, ScenesDir)
          /\ IF io = "ok"
             THEN MainStep("loop", res, CreateDirAll(fs, ScenesDir), qt, << >>)
             ELSE MainStep("aborted", res, fs, qt, << >>)

----------------------------------------------------------------------------
(* process_video, called from the batch loop. *)

InVideo(pos) == pc = "loop" /\ vi <= Len(args.videos) /\ pv = pos

Video == args.videos[vi]

\* the loop goes to the next video after Ok
AfterOk(i, n) == i + 1

\* (a loop that gave up at the first failing video)
AfterErr_Break(i, n) == n + 1

\* if let Err(e) = process_video(..) { eprintln!(..) }: the loop goes on
AfterErr(i, n) == i + 1

IsErr(st) == st \in {"step_failed", "io_failed"}

\* process_video goes on to its next step
PvStep(newpv, newfs, evs) ==
    /\ pv' = newpv
    /\ fs' = newfs
    /\ log' = log \o evs
    /\ UNCHANGED <<args, qt, pc, cd, cdl, res, vi, status, exit, run, prev, reg, mp>>

\* process_video returns; main's loop takes the result
PvReturn(st, newfs, evs) ==
    /\ status' = [status EXCEPT ![vi] = st]
    /\ vi' = IF IsErr(st) THEN AfterErr(vi, Len(args.videos))
             ELSE AfterOk(vi, Len(args.videos))
    /\ pv' = "enter"
    /\ fs' = newfs
    /\ log' = log \o evs
    /\ UNCHANGED <<args, qt, pc, cd, cdl, res, exit, run, prev, reg, mp>>

\* (a guard that forgot the force flag and always overwrites)
EntryGuard_AlwaysOverwrite(exists, force) ==
    IF exists THEN "overwrite" ELSE "fresh"

\* the entry guard: "skip", "overwrite" or "fresh"
EntryGuard(exists, force) ==
    IF exists THEN (IF force THEN "overwrite" ELSE "skip") ELSE "fresh"

\* (fs::remove_dir in its place: the directory's content stays)
Overwritten_DirOnly(f, scene) == f \ {scene}

\* what fs::remove_dir_all(&scene_dir) leaves when it succeeds
Overwritten(f, scene) == RemoveDirAll(f, scene)

\* lines 306-321
PV_Enter ==
    /\ InVideo("enter")
    /\ LET g == EntryGuard(Exists(fs, SceneDir(Video)), args.force)
           e == <<Ev("enter", g, vi, SceneDir(Video), {})>> IN
       CASE g = "skip"  -> PvReturn("skipped", fs, e)
         [] g = "fresh" -> PvStep("mkdirs", fs, e)
         [] OTHER ->
              \E io \in {"ok", "error"} :
                 IF io = "ok"
                 THEN PvStep("mkdirs", Overwritten(fs, SceneDir(Video)),
                             e \o <<Ev("remove_dir_all", "", vi, SceneDir(Video), {})>>)
                 ELSE PvReturn("io_failed", fs, e)

\* (a job set up with its images directory only)
JobDirs_ImagesOnly(f, v) == CreateDirAll(f, ImagesDir(v))

\* what the two create_dir_all calls leave when both succeed
JobDirs(f, v) == CreateDirAll(CreateDirAll(f, ImagesDir(v)), SparseDir(v))

\* fs::create_dir_all(&images_dir)?; fs::create_dir_all(&sparse_dir)?;
PV_MkDirs ==
    /\ InVideo("mkdirs")
    /\ \E io \in {"ok", "images_error", "sparse_error"} :
         CASE io = "ok" ->
                PvStep("ffmpeg", JobDirs(fs, Video),
                       <<Ev("create_dirs", "", vi, SceneDir(Video), {})>>)
           [] io = "images_error" -> PvReturn("io_failed", fs, << >>)
           [] OTHER ->
                PvReturn("io_failed", CreateDirAll(fs, ImagesDir(Video)), << >>)

\* (a step whose failure path removed the half-made scene directory)
RunStep_TidyOnFailure(step, exe, flags, paths, made, next) ==
    \E out \in Outcomes :
        LET e == <<Launch(step, vi, exe, flags, paths, out)>> IN
        IF out = "ok"
        THEN IF next = "return" THEN PvReturn("ok", fs \cup made, e)
             ELSE PvStep(next, fs \cup made, e)
        ELSE PvReturn("step_failed", RemoveDirAll(fs, SceneDir(Video)), e)

\* (a step whose result was dropped: process_video went on after a failure)
RunStep_GoOnAfterFailure(step, exe, flags, paths, made, next) ==
    \E out \in Outcomes :
        LET e == <<Launch(step, vi, exe, flags, paths, out)>>
            f == IF out = "ok" THEN fs \cup made ELSE fs IN
        IF next = "return" THEN PvReturn("ok", f, e)
        ELSE PvStep(next, f, e)

\* one run_command(..)? of process_video: on Ok the step's output appears and
\* process_video goes on, on Err it returns with the scene directory as it is
RunStep(step, exe, flags, paths, made, next) ==
    \E out \in Outcomes :
        LET e == <<Launch(step, vi, exe, flags, paths, out)>> IN
        IF out = "ok"
        THEN IF next = "return" THEN PvReturn("ok", fs \cup made, e)
             ELSE PvStep(next, fs \cup made, e)
        ELSE PvReturn("step_failed", fs, e)

\* 1. ffmpeg -i <video> -qscale:v 2 <images>/frame_%06d.jpg
PV_Ffmpeg ==
    /\ InVideo("ffmpeg")
    /\ RunStep("ffmpeg", res.ffmpeg_path, {"-i", "-qscale:v"}, <<ImagesDir(Video)>>,
               {Join(ImagesDir(Video), "frame_000001.jpg")}, "feature_extractor")

\* the flags of the feature_extractor command: the same whatever the tool
FeatureFlags(tool) ==
    {"--database_path", "--image_path", "--ImageReader.single_camera",
     "--SiftExtraction.use_gpu", "--SiftExtraction.max_image_size"}

\* the flags of the sequential_matcher command: the same whatever the tool
MatcherFlags(tool) == {"--database_path", "--SequentialMatching.overlap"}

\* 2. colmap feature_extractor
PV_FeatureExtractor ==
    /\ InVideo("feature_extractor")
    /\ RunStep("feature_extractor", res.colmap_path, FeatureFlags(args.tool),
               <<DbPath(Video), ImagesDir(Video)>>,
               {DbPath(Video)}, "sequential_matcher")

\* 3. colmap sequential_matcher
PV_Matcher ==
    /\ InVideo("sequential_matcher")
    /\ RunStep("sequential_matcher", res.colmap_path, MatcherFlags(args.tool),
               <<DbPath(Video)>>, {}, "mapper")

\* (a mapper command that always named the thread count)
MapperFlags_ThreadsAlways(tool) ==
    {"--database_path", "--image_path", "--output_path", "--Mapper.num_threads"}

\* if let Tool::Colmap = tool { mapper_cmd.arg("--Mapper.num_threads") }
MapperFlags(tool) ==
    {"--database_path", "--image_path", "--output_path"}
    \cup (IF tool = "Colmap" THEN {"--Mapper.num_threads"} ELSE {})

\* 4. <tool> mapper: it may or may not leave a model at sparse/0
PV_Mapper ==
    /\ InVideo("mapper")
    /\ \E model \in BOOLEAN :
         RunStep("mapper", res.tool_path, MapperFlags(args.tool),
                 <<DbPath(Video), ImagesDir(Video), SparseDir(Video)>>,
                 IF model
                 THEN {ModelPath(Video), Join(ModelPath(Video), "cameras.bin")}
                 ELSE {},
                 "export")

ConverterFlags == {"--input_path", "--output_path", "--output_type"}

\* (an export that never made the extra pass)
NeedsSelfPass_Never(tool) == FALSE

\* if let Tool::Glomap = tool: the model is first converted onto itself
NeedsSelfPass(tool) == tool = "Glomap"

\* if model_path.exists() { if let Tool::Glomap = tool { model_converter 0 -> 0 } ..
PV_Export ==
    /\ InVideo("export")
    /\ IF ~Exists(fs, ModelPath(Video)) THEN PvReturn("ok", fs, << >>)
       ELSE IF NeedsSelfPass(args.tool)
            THEN RunStep("model_converter (for glomap)", res.colmap_path, ConverterFlags,
                         <<ModelPath(Video), ModelPath(Video)>>,
                         {Join(ModelPath(Video), "cameras.txt")}, "export_final")
            ELSE PvStep("export_final", fs, << >>)

\* .. model_converter 0 -> sparse }
PV_ExportFinal ==
    /\ InVideo("export_final")
    /\ RunStep("model_converter", res.colmap_path, ConverterFlags,
               <<ModelPath(Video), SparseDir(Video)>>,
               {Join(SparseDir(Video), "cameras.txt")}, "return")

\* (a main that reported the batch's failures in its exit status)
ExitAfterLoop_FailIfAnyFailed(st) ==
    IF \E i \in DOMAIN st : IsErr(st[i]) THEN "failure" ELSE "success"

\* Ok(()) at the end of main, whatever the videos came to
ExitAfterLoop(st) == "success"

\* the loop is over
Main_Finish ==
    /\ pc = "loop" /\ vi > Len(args.videos)
    /\ pc' = "done"
    /\ exit' = ExitAfterLoop(status)
    /\ UNCHANGED <<args, fs, qt, cd, cdl, res, vi, pv, status, log, run, prev, reg, mp>>

----------------------------------------------------------------------------
(* The program, run once; and run again on what the first run left. *)

Next ==
    \/ CD_Override \/ CD_Which \/ CD_InstallDir \/ CD_Find
    \/ PD_Release \/ PD_Filter \/ PD_Prompt \/ PD_Download
    \/ PD_Unzip \/ PD_Cleanup \/ PD_Verify
    \/ Main_ColmapAlias \/ Main_Publish \/ Main_QtPluginPath \/ Main_ScenesDir
    \/ PV_Enter \/ PV_MkDirs \/ PV_Ffmpeg \/ PV_FeatureExtractor \/ PV_Matcher
    \/ PV_Mapper \/ PV_Export \/ PV_ExportFinal
    \/ Main_Finish

Spec == Init /\ [][Next]_vars

\* the tool whose download or extraction ended the run, if that is how it ended
FailedInstall ==
    IF /\ Len(log) >= 2
       /\ log[Len(log)].ev = "return_err"
       /\ log[Len(log) - 1].ev \in {"download", "unzip"}
    THEN log[Len(log)].tool
    ELSE ""

\* the operator starts the program again with the same command line, from the
\* same shell, on the file system the first run left
Rerun ==
    /\ pc \in {"done", "aborted"}
    /\ run.n = 1
    /\ run' = [run EXCEPT !.n = 2, !.fs0 = fs]
    /\ prev' = [pc |-> pc, status |-> status, spawned |-> Cardinality(Spawns),
                failed_install |-> FailedInstall]
    /\ qt' = run.shell_qt
    /\ pc' = "dep_ffmpeg"
    /\ cd' = "override"
    /\ cdl' = Cdl0
    /\ res' = Res0
    /\ vi' = 1
    /\ pv' = "enter"
    /\ status' = [i \in 1..Len(args.videos) |-> "pending"]
    /\ log' = << >>
    /\ exit' = "running"
    /\ UNCHANGED <<args, fs, reg, mp>>

NextRerun == Next \/ Rerun

\* default settings: no --force; the shell sets no QT_PLUGIN_PATH
InitRerun == Init /\ ~args.force /\ run.shell_qt = None

SpecRerun == InitRerun /\ [][NextRerun]_vars

----------------------------------------------------------------------------
(* modify_polyfjord_path (modify_path.rs), run on its own and then once more *)
(* with the same argument.                                                   *)

\* longest persisted Path the program is started on, in entries
MaxEntries == 2

\* the working directory a relative argument is resolved against
Cwd == <<"home">>

\* std::path::absolute: a relative path (it starts with ".") is joined to the
\* working directory, an absolute one is taken as it is
absolute(p) == IF Len(p) > 0 /\ p[1] = "." THEN Cwd \o Tail(p) ELSE p

\* Path::new(p) == dir: paths are compared by their components, so a trailing
\* separator makes no difference and the empty entry equals no directory
PathEq(entry, d) == entry.dir = d

\* current_path.split(';').any(|p| Path::new(p) == dir)
InPath(path, d) == \E k \in 1..Len(path) : PathEq(path[k], d)

\* new_paths.push(';'); new_paths.push_str(dir.to_str()..)
Pushed(path, d) == Append(path, PathEntry(d, FALSE))

tools == <<"colmap", "glomap", "ffmpeg">>

MpStep(newmp, newreg) ==
    /\ mp' = newmp
    /\ reg' = newreg
    /\ UNCHANGED <<args, fs, qt, pc, cd, cdl, res, vi, pv, status, log, exit, run, prev>>

\* main of modify_path.rs: exit status 1 when run returned Err, 0 otherwise
MpExit(code, newreg) == MpStep([mp EXCEPT !.pc = "exited", !.exit = code], newreg)

\* the tools directory is looked for, the registry key opened and Path read
MP_Open ==
    /\ mp.pc = "start"
    /\ IF ~Exists(fs, ToolsBase) THEN MpExit(0, reg)
       ELSE \E io \in {"ok", "error"} :
              /\ ~reg.has_path => io = "error"
              /\ IF io = "error" THEN MpExit(1, reg)
                 ELSE MpStep([mp EXCEPT !.pc = "install_dir",
                                        !.current_path = reg.path,
                                        !.new_paths = reg.path,
                                        !.added_any = FALSE, !.i = 1], reg)

\* the install directory is added unless an entry of current_path equals it
MP_InstallDir ==
    /\ mp.pc = "install_dir"
    /\ LET d == absolute(mp.install_dir) IN
       IF ~InPath(mp.current_path, d)
       THEN MpStep([mp EXCEPT !.pc = "tools", !.new_paths = Pushed(@, d),
                              !.added_any = TRUE], reg)
       ELSE MpStep([mp EXCEPT !.pc = "tools"], reg)

\* one turn of the loop over the tools: the directory of the tool's executable
\* is added unless an entry of current_path equals it
MP_Tool ==
    /\ mp.pc = "tools" /\ mp.i <= Len(tools)
    /\ LET exe == find_executable(fs, Join(ToolsBase, tools[mp.i]), tools[mp.i])
           next == [mp EXCEPT !.i = @ + 1] IN
       IF exe # None /\ ~InPath(mp.current_path, Parent(exe))
       THEN MpStep([next EXCEPT !.new_paths = Pushed(@, Parent(exe)),
                                !.added_any = TRUE], reg)
       ELSE MpStep(next, reg)

\* if !added_any { return Ok(()) }; env_key.set_value("Path", &new_paths)?
MP_Write ==
    /\ mp.pc = "tools" /\ mp.i > Len(tools)
    /\ IF ~mp.added_any THEN MpExit(0, reg)
       ELSE \/ MpExit(0, [reg EXCEPT !.path = mp.new_paths])
            \/ MpExit(1, reg)

\* the program is started once more with the same argument
MP_Again ==
    /\ mp.pc = "exited" /\ mp.n = 1
    /\ MpStep([mp EXCEPT !.pc = "start", !.n = 2, !.exit1 = mp.exit, !.reg1 = reg],
              reg)

\* the directories an entry of the persisted Path may name
PathDirs == { <<"win">>, Join(ToolsBase, "colmap"), <<"opt">> }

PathEntries ==
    { PathEntry(d, FALSE) : d \in PathDirs }
    \cup { PathEntry(Join(ToolsBase, "colmap"), TRUE), PathEntry(<< >>, FALSE) }

\* the persisted values: the empty string is one empty entry
PathValues == UNION { [1..k -> PathEntries] : k \in 1..MaxEntries }

\* the arguments the program is given: what main hands it (the directory of
\* colmap's executable), another directory, a relative path
InstallDirArgs ==
    { Join(ToolsBase, "colmap"), Join(Join(ToolsBase, "colmap"), "bin"),
      <<"opt">>, <<".", "tools">> }

InitPath ==
    \E r \in { [has_path |-> TRUE, path |-> p] : p \in PathValues }
             \cup { [has_path |-> FALSE, path |-> << >>] },
       d \in InstallDirArgs,
       base \in { {}, Ancestors(ToolsBase) },
       colmap \in {"absent", "root", "bin"},
       ffmpeg \in {"absent", "root"} :
        LET a == [videos |-> <<CHOOSE x \in VideoPaths : x.stem = "b">>,
                  tool |-> "Colmap", force |-> FALSE,
                  ffmpeg_path |-> None, tool_path |-> None]
            f == base \cup ToolFiles("colmap", colmap) \cup ToolFiles("ffmpeg", ffmpeg)
        IN /\ Start(a, f, None, 1, Prev0)
           /\ reg = r
           /\ mp = [Mp0 EXCEPT !.pc = "start", !.n = 1, !.install_dir = d,
                               !.reg0 = r, !.reg1 = r]

NextPath == MP_Open \/ MP_InstallDir \/ MP_Tool \/ MP_Write \/ MP_Again

SpecPath == InitPath /\ [][NextPath]_vars

----------------------------------------------------------------------------
(* Reading the record of a run. *)

Videos == 1..Len(args.videos)

Entered(i) == \E k \in Events("enter") : log[k].vid = i

\* the entry guard's decision for video i, once it is taken
Decision(i) == log[CHOOSE k \in Events("enter") : log[k].vid = i].tool

\* the subprocesses launched for video i, as positions of the log
SpawnsOf(i) == { k \in Spawns : log[k].vid = i }

\* the paths at or under p
Under(f, p) == { q \in f : IsUnder(p, q) }

SameStem(i, j) == file_stem(args.videos[i]) = file_stem(args.videos[j])

----------------------------------------------------------------------------
(* C1 -- partial-failure isolation.  A video whose step fails (its           *)
(* subprocess exits non-zero or cannot be launched) never ends the batch:    *)
(* the run completes only when every video's entry guard was evaluated, and  *)
(* each guard decides as it would have with every earlier video succeeding:  *)
(* from the scene directories the run started with and the stems of the      *)
(* earlier videos alone.  (Videos after an I/O error of an earlier video     *)
(* with the same stem are left out: the claim is about step failures.)       *)

\* would scenes/<stem of j> exist at j's turn, had every earlier video succeeded
SceneExistsHadAllSucceeded(j) ==
    \/ Exists(run.fs0, SceneDir(args.videos[j]))
    \/ \E i \in 1..(j - 1) : SameStem(i, j)

NoIoErrorBefore(j) ==
    \A i \in 1..(j - 1) : SameStem(i, j) => status[i] # "io_failed"

C1_FailureIsolation ==
    /\ pc = "done" => \A i \in Videos : Entered(i) /\ status[i] # "pending"
    /\ \A i \in Videos : status[i] = "step_failed" => pc \in {"loop", "done"}
    /\ \A j \in Videos :
         Entered(j) /\ NoIoErrorBefore(j) =>
            Decision(j) = EntryGuard(SceneExistsHadAllSucceeded(j), args.force)

\* a video is fully processed after an earlier one failed at a step
C1_Witness ==
    /\ pc = "done"
    /\ \E i, j \in Videos :
         /\ i < j
         /\ status[i] = "step_failed"
         /\ status[j] = "ok"
         /\ Cardinality(SpawnsOf(j)) >= 5

----------------------------------------------------------------------------
(* C2 -- skip guard.  When process_video starts on a video whose scene       *)
(* directory exists and force is false, that step launches no subprocess,    *)
(* leaves the file system exactly as it was, and returns Ok: the loop moves   *)
(* to the next video with this one recorded as skipped.                      *)

C2_SkipStep ==
    (InVideo("enter") /\ Exists(fs, SceneDir(Video)) /\ ~args.force) =>
        /\ fs' = fs
        /\ Cardinality(Spawns') = Cardinality(Spawns)
        /\ status' = [status EXCEPT ![vi] = "skipped"]
        /\ ~IsErr(status'[vi])
        /\ vi' = vi + 1
        /\ pv' = "enter"

C2_SkipGuard == [][C2_SkipStep]_vars

\* a video was skipped and what the earlier job left is still there
C2_Witness ==
    \E i \in Videos :
        /\ status[i] = "skipped"
        /\ SpawnsOf(i) = {}
        /\ Join(SceneDir(args.videos[i]), "notes.txt") \in fs
        /\ Join(SceneDir(args.videos[i]), "notes.txt") \in run.fs0

----------------------------------------------------------------------------
(* C3 -- force overwrite.  For a video whose scene directory existed at its  *)
(* entry with force true, at the moment frame extraction is about to be      *)
(* launched the scene directory holds exactly itself, images and sparse,     *)
(* nothing of the old job; and in the record the removal and the creation of *)
(* the directories come, in this order, before the video's first subprocess. *)

PosOf(kind, i) == { k \in Events(kind) : log[k].vid = i }

C3_ForceOverwrite ==
    \A i \in Videos :
        (Entered(i) /\ Decision(i) = "overwrite") =>
          /\ (pc = "loop" /\ vi = i /\ pv = "ffmpeg") =>
                Under(fs, SceneDir(args.videos[i]))
                  = { SceneDir(args.videos[i]), ImagesDir(args.videos[i]),
                      SparseDir(args.videos[i]) }
          /\ \A k \in SpawnsOf(i) :
                \E r \in PosOf("remove_dir_all", i), c \in PosOf("create_dirs", i) :
                    r < c /\ c < k
          /\ (SpawnsOf(i) # {}) =>
                log[CHOOSE k \in SpawnsOf(i) : \A m \in SpawnsOf(i) : k <= m].tool
                  = "ffmpeg"

\* frame extraction is about to start on a scene directory that was overwritten
C3_Witness ==
    /\ pc = "loop" /\ vi <= Len(args.videos) /\ pv = "ffmpeg"
    /\ Decision(vi) = "overwrite"
    /\ Join(SceneDir(Video), "notes.txt") \in run.fs0

----------------------------------------------------------------------------
(* C4 -- idempotence of the whole run.  When the program is run again with   *)
(* the same command line and no --force, after a run in which every video    *)
(* ended skipped, processed or failed at a step, the second run launches no  *)
(* subprocess at all and every video it reaches is skipped.                  *)

FirstRunOutcomes == {"skipped", "ok", "step_failed"}

C4_SecondRunIdle ==
    (run.n = 2 /\ \A i \in Videos : prev.status[i] \in FirstRunOutcomes) =>
        /\ Spawns = {}
        /\ \A i \in Videos : status[i] \in {"pending", "skipped"}

\* the second run is over, having skipped a video the first run failed on and
\* one it processed
C4_Witness ==
    /\ run.n = 2 /\ pc = "done"
    /\ prev.spawned > 0
    /\ \E i, j \in Videos :
         /\ prev.status[i] = "step_failed" /\ status[i] = "skipped"
         /\ prev.status[j] = "ok" /\ status[j] = "skipped"
    /\ Spawns = {}

----------------------------------------------------------------------------
(* C5 -- resumption after failure.  A video whose pipeline failed at a step  *)
(* in the previous run is processed again when the program is re-run on the  *)
(* same inputs: the second run does not skip it as already processed.        *)

C5_FailedVideoIsRetried ==
    \A i \in Videos :
        (run.n = 2 /\ prev.status[i] = "step_failed" /\ status[i] # "pending") =>
            /\ status[i] # "skipped"
            /\ SpawnsOf(i) # {}

----------------------------------------------------------------------------
(* Reading the record of the resolutions. *)

\* the stages of a resolution that search or install
SearchEvents == {"which", "install_dir", "find"}
InstallEvents == {"release", "offer", "download", "unzip", "remove_zip", "verify"}

\* positions of the events of tool n's resolution
EventsOf(n, kinds) == { k \in 1..Len(log) : log[k].tool = n /\ log[k].ev \in kinds }

\* the override given for the resolution at d, its tool and its install directory
ArgOf(d) ==
    CASE d = "dep_ffmpeg" -> args.ffmpeg_path
      [] d = "dep_tool"   -> args.tool_path
      [] OTHER            -> None

NameOf(d) ==
    CASE d = "dep_ffmpeg" -> "ffmpeg"
      [] d = "dep_tool"   -> ToolName(args.tool)
      [] OTHER            -> "colmap"

Returned(d) == res.ret[d].st # "none"

----------------------------------------------------------------------------
(* C6 -- explicit override.  A resolution given an override path returns     *)
(* exactly that path, not fresh, when the path exists, and fails when it     *)
(* does not; either way it searches no PATH, looks up or creates no install  *)
(* directory, asks the release API nothing and downloads nothing.            *)

C6_Override ==
    \A d \in DepPcs :
        (Returned(d) /\ ArgOf(d) # None) =>
          /\ Exists(run.fs0, ArgOf(d)) =>
                res.ret[d] = [st |-> "ok", path |-> ArgOf(d), fresh |-> FALSE]
          /\ ~Exists(run.fs0, ArgOf(d)) => res.ret[d].st = "err"
          /\ EventsOf(NameOf(d), SearchEvents \cup InstallEvents) = {}
          /\ ~Exists(run.fs0, Join(ToolsBase, NameOf(d)))
                => ~Exists(fs, Join(ToolsBase, NameOf(d)))

\* an existing override was taken although PATH holds the tool, and a missing
\* override ended the run although PATH holds that tool too
C6_Witness ==
    /\ args.ffmpeg_path # None /\ res.ret["dep_ffmpeg"].st = "ok"
    /\ res.ret["dep_ffmpeg"].path = args.ffmpeg_path
    /\ which(fs, "ffmpeg") # None
    /\ args.tool_path # None /\ res.ret["dep_tool"].st = "err"
    /\ which(fs, ToolName(args.tool)) # None
    /\ pc = "aborted"

----------------------------------------------------------------------------
(* C7 -- ordered, short-circuiting fallback.  A resolution with no override  *)
(* runs its stages in the order PATH search, install-directory lookup,       *)
(* download, each at most once, and a stage is reached only when every       *)
(* earlier one found nothing: the install directory is looked at only when   *)
(* PATH does not hold the tool, and the release API is asked (and the        *)
(* operator prompted) only when neither PATH nor the install directory does. *)

Searching(d) == ArgOf(d) = None /\ (d = "dep_colmap" => args.tool = "Glomap")

Before(n, kind, k) == \E j \in EventsOf(n, {kind}) : j < k

InstallDirOf(n) == Join(ToolsBase, n)

C7_OrderedFallback ==
    \A d \in DepPcs :
        Searching(d) =>
          LET n == NameOf(d) IN
          /\ \A kind \in SearchEvents \cup {"release", "offer"} :
                Cardinality(EventsOf(n, {kind})) <= 1
          /\ \A k \in EventsOf(n, {"install_dir"}) :
                Before(n, "which", k) /\ which(run.fs0, n) = None
          /\ \A k \in EventsOf(n, {"find"}) : Before(n, "install_dir", k)
          /\ \A k \in EventsOf(n, InstallEvents) :
                /\ Before(n, "which", k) /\ Before(n, "find", k)
                /\ which(run.fs0, n) = None
                /\ find_executable(run.fs0, InstallDirOf(n), n) = None
          /\ \A k \in EventsOf(n, {"offer"}) : Before(n, "release", k)
          /\ (Returned(d) /\ which(run.fs0, n) # None) =>
                res.ret[d] = [st |-> "ok", path |-> which(run.fs0, n), fresh |-> FALSE]
          /\ (Returned(d) /\ which(run.fs0, n) = None
                /\ find_executable(run.fs0, InstallDirOf(n), n) # None) =>
                res.ret[d] = [st |-> "ok",
                              path |-> find_executable(run.fs0, InstallDirOf(n), n),
                              fresh |-> FALSE]

\* one tool came from PATH although it is installed too, one from its install
\* directory, and for a third the release API was asked
C7_Witness ==
    \E a, b, c \in ToolNames :
        /\ EventsOf(a, {"which"}) # {} /\ EventsOf(a, {"install_dir"}) = {}
        /\ find_executable(run.fs0, InstallDirOf(a), a) # None
        /\ EventsOf(b, {"find"}) # {} /\ EventsOf(b, {"release"}) = {}
        /\ \E d \in DepPcs : NameOf(d) = b /\ res.ret[d].st = "ok"
        /\ EventsOf(c, {"offer"}) # {}

----------------------------------------------------------------------------
(* C8 -- the fresh-install flag.  A resolution that returned a path returned *)
(* fresh = true exactly when it went through the download branch in this run *)
(* and the installed executable was found; a path from an override, from     *)
(* PATH or from the install directory always carries fresh = false.          *)

C8_FreshFlag ==
    \A d \in DepPcs :
        res.ret[d].st = "ok" =>
          /\ res.ret[d].fresh <=>
                (EventsOf(NameOf(d), {"download"}) # {}
                 /\ EventsOf(NameOf(d), {"verify"}) # {})
          /\ (ArgOf(d) # None \/ which(run.fs0, NameOf(d)) # None
              \/ find_executable(run.fs0, InstallDirOf(NameOf(d)), NameOf(d)) # None)
                => ~res.ret[d].fresh

\* one resolution of the run installed its tool, another found its tool in place
C8_Witness ==
    \E d, e \in DepPcs :
        /\ res.ret[d].st = "ok" /\ res.ret[d].fresh
        /\ res.ret[e].st = "ok" /\ ~res.ret[e].fresh
        /\ EventsOf(NameOf(e), {"find"}) # {}

----------------------------------------------------------------------------
(* C9 -- asset filtering.  The list offered is the release's list cut down,  *)
(* in the release's order, to the assets whose name contains the platform    *)
(* marker and ends with the archive extension; only such an asset is ever    *)
(* downloaded, and only after the list was offered; and when no asset of the *)
(* release qualifies the resolution fails at once: nothing is offered,       *)
(* downloaded or written.                                                    *)

\* the names of the model that contain "win" and end in ".zip"
PlatformAssets == { Asset("win.zip"), Asset("nv-win.zip") }

\* sub is full cut down to its members of keep, order kept
IsCutDownTo(sub, full, keep) ==
    LET idx == { i \in 1..Len(full) : full[i] \in keep } IN
    /\ Len(sub) = Cardinality(idx)
    /\ \E f \in [1..Len(sub) -> idx] :
          /\ \A a, b \in 1..Len(sub) : a < b => f[a] < f[b]
          /\ \A a \in 1..Len(sub) : sub[a] = full[f[a]]

C9_FilterStep ==
    (InDep /\ cd = "filter") =>
        IF \E i \in 1..Len(cdl.release) : cdl.release[i] \in PlatformAssets
        THEN /\ cd' = "prompt" /\ pc' = pc
             /\ IsCutDownTo(cdl'.assets, cdl.release, PlatformAssets)
             /\ log' = Append(log, Ev("offer", Dep.name, 0, None, {}))
        ELSE /\ pc' = "aborted"
             /\ res'.ret[pc].st = "err"
             /\ fs' = fs
             /\ \A k \in 1..Len(log') :
                   log'[k].tool = Dep.name => log'[k].ev \notin {"offer", "download", "unzip"}

C9_Offered ==
    /\ (InDep /\ cd \in {"prompt", "download"}) =>
          /\ cdl.assets # << >>
          /\ \A i \in 1..Len(cdl.assets) : cdl.assets[i] \in PlatformAssets
    /\ \A k \in Events("download") :
          /\ log[k].path \in { a.browser_download_url : a \in PlatformAssets }
          /\ Before(log[k].tool, "offer", k)

C9_AssetFilter == []C9_Offered /\ [][C9_FilterStep]_vars

\* one tool was installed from an offered asset, and the resolution of the
\* next failed on a release with no asset to offer
C9_Witness ==
    /\ pc = "aborted"
    /\ \E n, m \in ToolNames :
         /\ EventsOf(n, {"download"}) # {} /\ EventsOf(n, {"verify"}) # {}
         /\ EventsOf(m, {"release"}) # {} /\ EventsOf(m, {"offer"}) = {}
         /\ log[Len(log)] = Ev("return_err", m, 0, None, {})
         /\ log[Len(log) - 1].ev = "release"

----------------------------------------------------------------------------
(* C10 -- fatal setup.  Once a resolution has failed the run is over with a  *)
(* failure: process_video is entered for no video, no subprocess is          *)
(* launched, and everything under the scenes directory is as the run found   *)
(* it.                                                                       *)

C10_FatalSetup ==
    (\E d \in DepPcs : res.ret[d].st = "err") =>
        /\ pc = "aborted" /\ exit = "failure"
        /\ vi = 1 /\ pv = "enter"
        /\ Events("enter") = {}
        /\ Spawns = {}
        /\ \A i \in Videos : status[i] = "pending"
        /\ Under(fs, ScenesDir) = Under(run.fs0, ScenesDir)

\* the third resolution failed after the first had installed its tool; the
\* scene an earlier job left is still there
C10_Witness ==
    /\ pc = "aborted"
    /\ res.ret["dep_ffmpeg"].st = "ok" /\ res.ret["dep_ffmpeg"].fresh
    /\ res.ret["dep_tool"].st = "ok"
    /\ res.ret["dep_colmap"].st = "err"
    /\ Under(fs, ScenesDir) # {}

----------------------------------------------------------------------------
(* C11 -- exit status.  As claimed: the run ends with a failure only when a  *)
(* dependency resolution failed, and every run that ends otherwise ends with *)
(* success.                                                                  *)

ResolutionFailed == \E d \in DepPcs : res.ret[d].st = "err"

C11_NonZeroOnlyOnResolutionFailure ==
    /\ exit = "failure" => ResolutionFailed
    /\ (pc \in {"done", "aborted"} /\ ~ResolutionFailed) => exit = "success"

(* C11 as amended: the run ends with a failure exactly when a step of main   *)
(* before the batch loop failed: a dependency resolution, the                *)
(* modify_polyfjord_path subprocess, the lookup of the install directory or  *)
(* the creation of the scenes directory; then no video was entered.  A run   *)
(* that reaches the batch loop ends with success whatever its videos came    *)
(* to.                                                                       *)

PublisherFailed ==
    /\ Len(log) > 0
    /\ log[Len(log)].ev = "spawn" /\ log[Len(log)].tool = "modify_path"
    /\ ~log[Len(log)].ok

C11_ExitStatus ==
    /\ exit = "failure" <=> pc = "aborted"
    /\ exit = "success" <=> pc = "done"
    /\ pc = "aborted" =>
          /\ Events("enter") = {}
          /\ \A i \in Videos : status[i] = "pending"
          /\ \/ ResolutionFailed
             \/ PublisherFailed
             \/ Events("set_var") = {} /\ ~Exists(fs, ToolsBase)
             \/ Events("set_var") # {} /\ ~Exists(fs, ScenesDir)
    /\ (\E i \in Videos : status[i] # "pending") => exit \in {"running", "success"}

\* the run ended with a failure although every resolution succeeded: the
\* publisher did not
C11_Witness ==
    /\ exit = "failure"
    /\ ~ResolutionFailed
    /\ PublisherFailed

----------------------------------------------------------------------------
(* C12 -- environment publication.  As claimed: in every run                 *)
(* modify_polyfjord_path is launched at most once, before the batch loop,    *)
(* and by the end of the run it was launched if and only if one of the run's *)
(* resolutions reported a fresh install.                                     *)

PublisherLaunches == { k \in Spawns : log[k].tool = "modify_path" }

AnyFresh == \E d \in DepPcs : res.ret[d].st = "ok" /\ res.ret[d].fresh

BeforeTheLoop(k) == \A j \in Events("enter") \cup (Spawns \ {k}) : k < j

C12_PublishedIffFresh ==
    /\ Cardinality(PublisherLaunches) <= 1
    /\ \A k \in PublisherLaunches : BeforeTheLoop(k)
    /\ pc \in {"done", "aborted"} => (PublisherLaunches # {} <=> AnyFresh)

(* C12 as amended: modify_polyfjord_path is launched at most once, only      *)
(* after a resolution of the run reported a fresh install, and before the    *)
(* batch loop and every other subprocess; and in every run whose resolutions *)
(* all succeeded it is launched if and only if one of them reported a fresh  *)
(* install.                                                                  *)

PastPublication == pc \in {"qt_plugin_path", "scenes_dir", "loop", "done", "aborted"}

C12_Publication ==
    /\ Cardinality(PublisherLaunches) <= 1
    /\ PublisherLaunches # {} => AnyFresh
    /\ \A k \in PublisherLaunches :
          /\ BeforeTheLoop(k)
          /\ log[k].argv = <<Parent(res.colmap_path)>>
    /\ (PastPublication /\ ~ResolutionFailed) => (PublisherLaunches # {} <=> AnyFresh)

\* the batch loop is reached after a publication that only the first
\* resolution of the run gave cause for
C12_Witness ==
    /\ pc = "loop"
    /\ PublisherLaunches # {}
    /\ res.ret["dep_ffmpeg"].fresh
    /\ \A d \in DepPcs \ {"dep_ffmpeg"} : ~res.ret[d].fresh
    /\ res.ret["dep_tool"].st = "ok"

----------------------------------------------------------------------------
(* C13 -- plugin-path ordering.  As claimed: QT_PLUGIN_PATH is set at most   *)
(* once, and once in every run that completes, before the batch loop and     *)
(* before any subprocess of the run is launched, to the plugins directory    *)
(* followed, when the variable had a value, by ";" and that value.           *)

SetVars == Events("set_var")

\* what the variable holds once set, from what the shell handed down
PluginsThenPrevious ==
    IF run.shell_qt = None THEN <<PluginsPath>>
    ELSE <<PluginsPath>> \o << <<";">> >> \o run.shell_qt

QtValueAsSet ==
    /\ SetVars = {} => qt = run.shell_qt
    /\ SetVars # {} => qt = PluginsThenPrevious

C13_SetBeforeAnySubprocess ==
    /\ Cardinality(SetVars) <= 1
    /\ pc = "done" => Cardinality(SetVars) = 1
    /\ \A k \in Spawns \cup Events("enter") : \E j \in SetVars : j < k
    /\ QtValueAsSet

(* C13 as amended: QT_PLUGIN_PATH is set at most once per run, and exactly   *)
(* once in every run that reaches the batch loop, before the loop and before *)
(* any step subprocess of any video; modify_polyfjord_path, when it is       *)
(* launched, is launched before the variable is set.  The value is the       *)
(* plugins directory followed, when the variable had a value, by ";" and     *)
(* that value unchanged.                                                     *)

C13_PluginPath ==
    /\ Cardinality(SetVars) <= 1
    /\ pc \in {"scenes_dir", "loop", "done"} => Cardinality(SetVars) = 1
    /\ \A k \in (Spawns \ PublisherLaunches) \cup Events("enter") :
          \E j \in SetVars : j < k
    /\ \A k \in PublisherLaunches : \A j \in SetVars : k < j
    /\ QtValueAsSet

\* a step subprocess has been launched in a run that published its tools and
\* whose shell had handed a value down
C13_Witness ==
    /\ run.shell_qt # None
    /\ PublisherLaunches # {}
    /\ Spawns \ PublisherLaunches # {}
    /\ qt = <<PluginsPath, <<";">>>> \o run.shell_qt

----------------------------------------------------------------------------
(* C14 -- persistent PATH idempotence.  When modify_polyfjord_path has run   *)
(* twice in succession with the same install directory d, both times to      *)
(* exit status 0 with the tools directory in place, on a persisted Path that *)
(* held d at most once, the persisted Path holds exactly one entry equal to  *)
(* d and the second run left it as the first had.                            *)

Occurrences(path, d) == Cardinality({ k \in 1..Len(path) : PathEq(path[k], d) })

RanTwice ==
    /\ mp.pc = "exited" /\ mp.n = 2
    /\ mp.exit1 = 0 /\ mp.exit = 0
    /\ Exists(fs, ToolsBase)

C14_TwiceLeavesOne ==
    (RanTwice /\ Occurrences(mp.reg0.path, absolute(mp.install_dir)) <= 1) =>
        /\ Occurrences(reg.path, absolute(mp.install_dir)) = 1
        /\ reg = mp.reg1

----------------------------------------------------------------------------
(* C15 -- job directory invariant.  Whenever a step subprocess of a video is *)
(* launched, the video's scene directory, its images directory and its       *)
(* sparse directory all exist, and were created before the video's first     *)
(* subprocess; a skipped video has no directory created and no step run; and *)
(* a video whose directories could not all be created has no step run.       *)

StepPositions ==
    {"ffmpeg", "feature_extractor", "sequential_matcher", "mapper", "export",
     "export_final"}

HasJobDirs(f, v) ==
    /\ Exists(f, SceneDir(v))
    /\ Exists(f, ImagesDir(v))
    /\ Exists(f, SparseDir(v))

\* the step taken launches a subprocess for a video
LaunchesStep ==
    /\ Len(log') = Len(log) + 1
    /\ log'[Len(log')].ev = "spawn"
    /\ log'[Len(log')].vid # 0

C15_LaunchStep ==
    LaunchesStep =>
        /\ log'[Len(log')].vid = vi
        /\ HasJobDirs(fs, Video)
        /\ HasJobDirs(fs', Video)

C15_Jobs ==
    /\ (pc = "loop" /\ vi <= Len(args.videos) /\ pv \in StepPositions) =>
          HasJobDirs(fs, Video)
    /\ \A i \in Videos :
          /\ \A k \in SpawnsOf(i) : \E c \in PosOf("create_dirs", i) : c < k
          /\ status[i] = "skipped" =>
                PosOf("create_dirs", i) = {} /\ SpawnsOf(i) = {}
          /\ status[i] = "io_failed" => SpawnsOf(i) = {}

C15_JobDirectories == []C15_Jobs /\ [][C15_LaunchStep]_vars

\* the mapper is about to be launched on a scene directory this run created,
\* after a video that was skipped
C15_Witness ==
    /\ pc = "loop" /\ vi <= Len(args.videos) /\ pv = "mapper"
    /\ ~Exists(run.fs0, SceneDir(Video))
    /\ HasJobDirs(fs, Video)
    /\ \E i \in Videos : status[i] = "skipped"

----------------------------------------------------------------------------
(* C16 -- step ordering within a video.  The subprocesses of a video are     *)
(* launched in the order frame extraction, feature extraction, sequential    *)
(* matching, mapper, model conversion; each is launched only after all the   *)
(* earlier ones of the video returned successfully; and a video has a failed *)
(* subprocess exactly when it ended as failed at a step, that subprocess     *)
(* being its last.                                                           *)

StepOrder(tool) ==
    <<"ffmpeg", "feature_extractor", "sequential_matcher", "mapper">>
    \o (IF tool = "Glomap" THEN <<"model_converter (for glomap)">> ELSE << >>)
    \o <<"model_converter">>

\* the place of launch k among the launches of its video
RankOf(i, k) == Cardinality({ j \in SpawnsOf(i) : j <= k })

C16_StepOrdering ==
    \A i \in Videos :
        /\ \A k \in SpawnsOf(i) :
              /\ RankOf(i, k) <= Len(StepOrder(args.tool))
              /\ log[k].tool = StepOrder(args.tool)[RankOf(i, k)]
              /\ \A j \in SpawnsOf(i) : j < k => log[j].ok
        /\ (\E k \in SpawnsOf(i) : ~log[k].ok) <=> status[i] = "step_failed"
        /\ status[i] = "ok" => Cardinality(SpawnsOf(i)) >= 4
        /\ (status[i] # "pending" /\ vi > i) =>
              \A k \in SpawnsOf(i) : \A j \in 1..Len(log) :
                  (j > k /\ log[j].vid # i) => \A m \in SpawnsOf(i) : m < j

\* one video failed at its third step and the next went through all six
C16_Witness ==
    \E i, j \in Videos :
        /\ i < j
        /\ status[i] = "step_failed"
        /\ Cardinality(SpawnsOf(i)) = 3
        /\ \E k \in SpawnsOf(i) : log[k].tool = "sequential_matcher" /\ ~log[k].ok
        /\ status[j] = "ok"
        /\ Cardinality(SpawnsOf(j)) = 6

----------------------------------------------------------------------------
(* C17 -- conditional export.  After a mapper that returned successfully the *)
(* model converter is launched if and only if sparse/0 exists.  Its passes   *)
(* are, in order, for Glomap sparse/0 onto sparse/0 and then sparse/0 to     *)
(* sparse, for Colmap sparse/0 to sparse alone: a video that finished        *)
(* successfully with a model made all the passes of its variant, one without *)
(* a model made none.                                                        *)

ConverterSteps == {"model_converter (for glomap)", "model_converter"}

Converters(i) == { k \in SpawnsOf(i) : log[k].tool \in ConverterSteps }

MapperOk(i) == \E k \in SpawnsOf(i) : log[k].tool = "mapper" /\ log[k].ok

\* the (input, output) of the passes of a variant
Passes(tool, v) ==
    IF tool = "Glomap"
    THEN << <<ModelPath(v), ModelPath(v)>>, <<ModelPath(v), SparseDir(v)>> >>
    ELSE << <<ModelPath(v), SparseDir(v)>> >>

\* process_video has just returned for video i
JustReturned(i) == pc \in {"loop", "done"} /\ vi = i + 1 /\ pv = "enter"

C17_ConditionalExport ==
    \A i \in Videos :
        LET v == args.videos[i]
            passes == Passes(args.tool, v) IN
        /\ \A k \in Converters(i) :
              LET r == Cardinality({ j \in Converters(i) : j <= k }) IN
              /\ MapperOk(i)
              /\ r <= Len(passes)
              /\ log[k].argv = passes[r]
        /\ (JustReturned(i) /\ MapperOk(i)) =>
              /\ Converters(i) # {} <=> Exists(fs, ModelPath(v))
              /\ ~Exists(fs, ModelPath(v)) => status[i] = "ok"
              /\ status[i] = "ok" =>
                    Cardinality(Converters(i))
                      = IF Exists(fs, ModelPath(v)) THEN Len(passes) ELSE 0

\* a Glomap run in which one video was exported in two passes and another,
\* whose mapper left no model, finished without any
C17_Witness ==
    /\ args.tool = "Glomap"
    /\ \E i, j \in Videos :
         /\ status[i] = "ok" /\ Cardinality(Converters(i)) = 2
         /\ status[j] = "ok" /\ MapperOk(j) /\ Converters(j) = {}
         /\ JustReturned(j)
         /\ ~Exists(fs, ModelPath(args.videos[j]))

----------------------------------------------------------------------------
(* C18 -- variant-specific step flags.  As claimed: the feature-extraction   *)
(* command carries the single-camera, GPU and maximum-image-size flags for   *)
(* one variant and none of them for the other, the sequential-matching       *)
(* command carries the overlap window for one variant only, and the mapper   *)
(* command carries the thread count for Colmap only.                         *)

Variants == {"Colmap", "Glomap"}

CameraGpuSize ==
    {"--ImageReader.single_camera", "--SiftExtraction.use_gpu",
     "--SiftExtraction.max_image_size"}

Overlap == "--SequentialMatching.overlap"

Threads == "--Mapper.num_threads"

StepLaunches(step) == { k \in Spawns : log[k].vid # 0 /\ log[k].tool = step }

\* the commands launched carry the flags the program has for the run's variant
FlagsAsLaunched ==
    /\ \A k \in StepLaunches("feature_extractor") :
          log[k].flags = FeatureFlags(args.tool)
    /\ \A k \in StepLaunches("sequential_matcher") :
          log[k].flags = MatcherFlags(args.tool)
    /\ \A k \in StepLaunches("mapper") : log[k].flags = MapperFlags(args.tool)

C18_FlagsForOneVariantOnly ==
    StepLaunches("sequential_matcher") # {} =>
        /\ FlagsAsLaunched
        /\ \E V \in Variants : \A W \in Variants \ {V} :
              /\ CameraGpuSize \subseteq FeatureFlags(V)
              /\ CameraGpuSize \cap FeatureFlags(W) = {}
        /\ \E V \in Variants : \A W \in Variants \ {V} :
              /\ Overlap \in MatcherFlags(V)
              /\ Overlap \notin MatcherFlags(W)
        /\ Threads \in MapperFlags("Colmap")
        /\ Threads \notin MapperFlags("Glomap")

(* C18 as amended: the feature-extraction command carries the single-camera, *)
(* GPU and maximum-image-size flags, and the sequential-matching command the *)
(* overlap window, for both variants; the mapper command alone depends on    *)
(* the variant: it carries the thread count for Colmap only.                 *)

C18_StepFlags ==
    /\ FlagsAsLaunched
    /\ \A k \in StepLaunches("feature_extractor") : CameraGpuSize \subseteq log[k].flags
    /\ \A k \in StepLaunches("sequential_matcher") : Overlap \in log[k].flags
    /\ \A k \in StepLaunches("mapper") :
          Threads \in log[k].flags <=> args.tool = "Colmap"
    /\ \A V \in Variants :
          /\ CameraGpuSize \subseteq FeatureFlags(V)
          /\ Overlap \in MatcherFlags(V)

\* a Glomap run launched its mapper without the thread count, after a feature
\* extraction and a matching that carried their flags
C18_Witness ==
    /\ args.tool = "Glomap"
    /\ \E k \in StepLaunches("mapper") : Threads \notin log[k].flags
    /\ \E k \in StepLaunches("feature_extractor") : CameraGpuSize \subseteq log[k].flags
    /\ \E k \in StepLaunches("sequential_matcher") : Overlap \in log[k].flags

----------------------------------------------------------------------------
(* C19 -- companion tool.  The resolutions come in the order ffmpeg, the     *)
(* selected tool, the companion, each begun only when the one before         *)
(* succeeded.  colmap is resolved as a companion, by search and never from   *)
(* --tool-path, if and only if the tool is Glomap; for Colmap there is no    *)
(* third resolution and the executable of feature extraction, matching and   *)
(* conversion is the resolved path the mapper is run from.                   *)

ResolutionEvents == SearchEvents \cup InstallEvents \cup {"return_ok", "return_err"}

\* every event of a's resolution comes before every event of b's
ResolvedBefore(a, b) ==
    \A j \in EventsOf(a, ResolutionEvents) : \A k \in EventsOf(b, ResolutionEvents) :
        j < k

ColmapSteps == {"feature_extractor", "sequential_matcher"} \cup ConverterSteps

C19_CompanionTool ==
    /\ ResolvedBefore("ffmpeg", ToolName(args.tool))
    /\ args.tool = "Glomap" =>
          ResolvedBefore("ffmpeg", "colmap") /\ ResolvedBefore("glomap", "colmap")
    /\ Returned("dep_tool") => res.ret["dep_ffmpeg"].st = "ok"
    /\ Returned("dep_colmap") =>
          /\ args.tool = "Glomap"
          /\ res.ret["dep_tool"].st = "ok"
          /\ EventsOf("colmap", {"which"}) # {}
    /\ (args.tool = "Glomap" /\ res.ret["dep_tool"].st = "ok" /\ pc # "dep_colmap") =>
          Returned("dep_colmap")
    /\ (res.ret["dep_colmap"].st = "ok" /\ pc # "aborted") =>
          /\ res.colmap_path = res.ret["dep_colmap"].path
          /\ res.colmap_path \in { Join(SysDir, ExeName("colmap")),
                                   Join(InstallDirOf("colmap"), ExeName("colmap")),
                                   Join(Join(InstallDirOf("colmap"), "bin"),
                                        ExeName("colmap")) }
    /\ args.tool = "Colmap" =>
          /\ res.ret["dep_colmap"] = NoRet
          /\ Cardinality(EventsOf("colmap", {"return_ok", "return_err"})) <= 1
          /\ pc \in {"publish", "qt_plugin_path", "scenes_dir", "loop", "done"} =>
                res.colmap_path = res.ret["dep_tool"].path
    /\ \A k \in Spawns :
          /\ log[k].tool \in ColmapSteps => log[k].path = res.colmap_path
          /\ log[k].tool = "mapper" => log[k].path = res.ret["dep_tool"].path
          /\ log[k].tool = "ffmpeg" => log[k].path = res.ret["dep_ffmpeg"].path

\* a Glomap run given --tool-path: the mapper ran from that path, the feature
\* extraction from the colmap the companion resolution found
C19_Witness ==
    /\ args.tool = "Glomap" /\ args.tool_path # None
    /\ res.ret["dep_colmap"].st = "ok"
    /\ \E k \in StepLaunches("mapper") : log[k].path = args.tool_path
    /\ \E k \in StepLaunches("feature_extractor") :
          /\ log[k].path = res.ret["dep_colmap"].path
          /\ log[k].path # args.tool_path

----------------------------------------------------------------------------
(* C20 -- retry after a failed install.  When the previous run ended in a    *)
(* failed download or a failed extraction of a tool, the next resolution of  *)
(* that tool, the tool not being on PATH, finds no executable in the install *)
(* directory and goes to the release API again: it does not return what the  *)
(* failed install left.                                                      *)

C20_RetryAfterFailedInstall ==
    \A d \in DepPcs :
        (/\ run.n = 2
         /\ Searching(d)
         /\ prev.failed_install = NameOf(d)
         /\ which(run.fs0, NameOf(d)) = None
         /\ Returned(d)) =>
            /\ find_executable(run.fs0, InstallDirOf(NameOf(d)), NameOf(d)) = None
            /\ EventsOf(NameOf(d), {"release"}) # {}

----------------------------------------------------------------------------
(* C21 -- interactive selection and install sequence.  At the prompt for a   *)
(* list of k >= 1 assets, a line that is not a numeral n with 1 <= n <= k    *)
(* leads back to the prompt with nothing downloaded or written; the first    *)
(* line that is one leads to the download of the n-th asset of the list, and *)
(* of no other.  Download, extraction, removal of the archive and the search *)
(* for the executable then come in this order, each at most once and each    *)
(* only after the one before succeeded; the resolution returns the           *)
(* executable found at dir/name.exe or dir/bin/name.exe, as fresh, and fails *)
(* when neither exists.                                                      *)

\* the numerals of the model, and the lines that choose among k assets
Numeral(n) ==
    CASE n = 1 -> "1"
      [] n = 2 -> "2"
      [] n = 3 -> "3"
      [] n = 4 -> "4"

Choosing(k) == { Numeral(n) : n \in { m \in 1..4 : m <= k } }

AtPrompt == InDep /\ cd = "prompt"

C21_PromptStep ==
    (AtPrompt /\ cdl'.reads = cdl.reads + 1) =>
        IF cdl'.line \in Choosing(Len(cdl.assets))
        THEN /\ cd' = "download"
             /\ Numeral(cdl'.choice) = cdl'.line
             /\ cdl'.assets = cdl.assets
        ELSE /\ cd' = "prompt" /\ pc' = pc
             /\ cdl'.assets = cdl.assets
             /\ fs' = fs /\ log' = log

C21_DownloadStep ==
    (InDep /\ cd = "download") =>
        /\ cdl.choice \in 1..Len(cdl.assets)
        /\ Len(log') >= Len(log) + 1
        /\ log'[Len(log) + 1].ev = "download"
        /\ log'[Len(log) + 1].path = cdl.assets[cdl.choice].browser_download_url
        /\ cd' = "unzip" =>
              /\ cdl'.zip = Join(cdl.dir, cdl.assets[cdl.choice].name)
              /\ Exists(fs', cdl'.zip)

InstallOrder == <<"download", "unzip", "remove_zip", "verify">>

C21_Sequence ==
    /\ (AtPrompt /\ cdl.reads > 0) =>
          /\ cdl.line \notin Choosing(Len(cdl.assets))
          /\ EventsOf(Dep.name, {"download"}) = {}
    /\ (InDep /\ cd = "unzip") => Exists(fs, cdl.zip)
    /\ (InDep /\ cd = "verify") => ~Exists(fs, cdl.zip)
    /\ \A n \in ToolNames :
          /\ \A s \in 1..Len(InstallOrder) :
                /\ Cardinality(EventsOf(n, {InstallOrder[s]})) <= 1
                /\ s > 1 =>
                      \A k \in EventsOf(n, {InstallOrder[s]}) :
                          /\ log[k - 1].ev = InstallOrder[s - 1]
                          /\ log[k - 1].tool = n
          /\ \A k \in EventsOf(n, {"download"}) : log[k - 1].ev = "offer"
          /\ \A k \in EventsOf(n, {"verify"}) :
                k < Len(log) =>
                   LET found == find_executable(fs, InstallDirOf(n), n) IN
                   /\ log[k + 1].tool = n
                   /\ log[k + 1].ev = IF found = None THEN "return_err" ELSE "return_ok"
                   /\ found # None =>
                         /\ log[k + 1].path = found
                         /\ log[k + 1].flags = {"fresh"}

C21_SelectAndInstall ==
    []C21_Sequence /\ [][C21_PromptStep /\ C21_DownloadStep]_vars

\* the archive chosen after one line that chose nothing has been extracted and
\* removed, and the executable is about to be looked for
C21_Witness ==
    /\ InDep /\ cd = "verify"
    /\ cdl.reads = 2
    /\ cdl.asset = Asset("nv-win.zip")
    /\ ~Exists(fs, cdl.zip)
    /\ find_executable(fs, cdl.dir, Dep.name) # None

----------------------------------------------------------------------------
(* C22 -- deduplication within one publication.  One run of                  *)
(* modify_polyfjord_path leaves the persisted Path as it was, followed by    *)
(* the directories it added; it adds a directory (the install directory, the *)
(* directory of a tool's executable) only when no entry of the Path equals   *)
(* it, no directory it adds occurs more than once in the value it writes,    *)
(* and when there is nothing to add it writes nothing.                       *)

\* the directories the run is to publish: its argument and the directories of
\* the executables found under the tools directory
ToPublish ==
    {absolute(mp.install_dir)}
    \cup { Parent(find_executable(fs, Join(ToolsBase, tools[t]), tools[t])) :
             t \in { u \in 1..Len(tools) :
                       find_executable(fs, Join(ToolsBase, tools[u]), tools[u]) # None } }

C22_AddsOnlyWhatIsMissing ==
    (mp.pc = "exited" /\ mp.n = 1) =>
        LET old == mp.reg0.path
            new == reg.path
            added == (Len(old) + 1)..Len(new) IN
        /\ Len(new) >= Len(old)
        /\ SubSeq(new, 1, Len(old)) = old
        /\ \A k \in added :
              /\ new[k].dir \in ToPublish
              /\ ~InPath(old, new[k].dir)
              /\ Occurrences(new, new[k].dir) = 1
        /\ (\A d \in ToPublish : InPath(old, d)) => reg = mp.reg0

----------------------------------------------------------------------------
(* C23 -- scene directories are keyed by the base name.  As claimed: of two  *)
(* videos of a batch with the same base name, with force false the later one *)
(* is skipped and launches nothing whatever the earlier one came to; with    *)
(* force true the later one, finding the earlier one's scene directory,      *)
(* removes it before it launches anything.                                   *)

BaseName(v) == v.stem

\* an earlier video of the batch with the base name of video j
Namesakes(j) == { i \in 1..(j - 1) : BaseName(args.videos[i]) = BaseName(args.videos[j]) }

RemovedBeforeSteps(j) ==
    /\ PosOf("remove_dir_all", j) # {}
    /\ \A k \in SpawnsOf(j) : \E r \in PosOf("remove_dir_all", j) : r < k
    /\ (pc = "loop" /\ vi = j /\ pv = "mkdirs") =>
          Under(fs, Join(ScenesDir, BaseName(args.videos[j]))) = {}

LeftScene == {"skipped", "ok", "step_failed"}

============================================================================
